---- MODULE Spec2Model ----
(***************************************************************************)
(* A model of ufl/algorithms/dependencies.py: the DependencySet lattice,   *)
(* the CodeStructure registry and the DependencySplitter driven by         *)
(* split_by_dependencies.  Expression nodes, DependencySet objects and     *)
(* VariableInfo objects live on heaps and are referred to by their index,  *)
(* so that Python's "is" is index equality and attribute assignment is an  *)
(* update of the heap.                                                     *)
(***************************************************************************)
EXTENDS Integers, Sequences, FiniteSets, TLC

VARIABLES
    heap,               \* expression nodes: index = object identity
    dsets,              \* DependencySet objects: index = object identity
    vinfos,             \* VariableInfo objects: index = object identity
    labelcount,         \* the global counter behind Label()
    expression,         \* split_by_dependencies: the (possibly wrapped) root node
    basisfunction_deps, \* caller's table: slot -> DependencySet object
    function_deps,      \* caller's table: slot -> DependencySet object
    variables,          \* split_by_dependencies: list of Variable nodes
    vi,                 \* position of the loop "for v in variables"
    variableinfo,       \* CodeStructure.variableinfo: label -> VariableInfo object
    stacks,             \* CodeStructure.stacks: dict DependencySet -> [VariableInfo]
    frames,             \* the recursion of Transformer.visit, innermost last
    reg,                \* arguments of a pending register_expression call
    vinfo,              \* split_by_dependencies: the local "vinfo" (0: unbound)
    result,             \* what split_by_dependencies returned (<<>>: nothing)
    pc,                 \* position of the run
    run,                \* 1: first run, 2: the run on the first run's root variable
    first,              \* the first run's outcome, kept for comparison
    log,                \* observations of completed handler calls
    out                 \* result of the last DependencySet query

vars == << heap, dsets, vinfos, labelcount, expression, basisfunction_deps,
           function_deps, variables, vi, variableinfo, stacks, frames, reg,
           vinfo, result, pc, run, first, log, out >>

----------------------------------------------------------------------------
(* Bounds *)

\* number of basis function slots, len(basisfunction_deps)
Rank == 2

\* number of expression nodes of an input expression
MaxNodes == 4

----------------------------------------------------------------------------
(* Small helpers *)

Min(a, b) == IF a < b THEN a ELSE b

Range(s) == {s[i] : i \in DOMAIN s}

\* Python: False == 0, True == 1
int(b) == IF b THEN 1 ELSE 0

----------------------------------------------------------------------------
(* class DependencySet *)

DependencySet(basisfunctions, runtime, coordinates) ==
    [runtime |-> runtime, coordinates |-> coordinates,
     basisfunctions |-> basisfunctions]

iter(self) == << self.runtime, self.coordinates >> \o self.basisfunctions

size(self) == Len(iter(self))

\* zip/izip stop at the shorter sequence
zip(s, t) == [i \in 1..Min(Len(s), Len(t)) |-> << s[i], t[i] >>]

coversSwapped(self, other) ==
    \A p \in Range(zip(iter(self), iter(other))) : ~(p[1] /\ ~p[2])

covers(self, other) ==
    \A p \in Range(zip(iter(self), iter(other))) : ~(p[2] /\ ~p[1])

\* hash(tuple): a number computed from the items and the length; CPython's
\* tuple hash has no collision among tuples of booleans of these lengths.
RECURSIVE tuplehash(_)
tuplehash(t) ==
    IF t = << >> THEN 1
    ELSE 2 * tuplehash(SubSeq(t, 1, Len(t) - 1)) + int(t[Len(t)])

hashBasisfunctionsOnly(self) == tuplehash(self.basisfunctions)

hash(self) == tuplehash(iter(self))

RECURSIVE cmpFrom(_, _)
cmpFrom(pairs, i) ==
    IF i > Len(pairs) THEN 0
    ELSE IF int(pairs[i][1]) < int(pairs[i][2]) THEN -1
    ELSE IF int(pairs[i][1]) > 1 THEN 1
    ELSE cmpFrom(pairs, i + 1)

cmp(self, other) == cmpFrom(zip(iter(self), iter(other)), 1)

\* old-style instances: == and != go through __cmp__
eq(self, other) == cmp(self, other) = 0

ne(self, other) == cmp(self, other) # 0

or_tuples(seqa, seqb) == [i \in DOMAIN zip(seqa, seqb) |-> seqa[i] \/ seqb[i]]

and_tuples(seqa, seqb) == [i \in DOMAIN zip(seqa, seqb) |-> seqa[i] /\ seqb[i]]

orKeepsSelfRuntime(self, other) ==
    DependencySet(or_tuples(self.basisfunctions, other.basisfunctions),
                  self.runtime,
                  self.coordinates \/ other.coordinates)

or(self, other) ==
    DependencySet(or_tuples(self.basisfunctions, other.basisfunctions),
                  self.runtime \/ other.runtime,
                  self.coordinates \/ other.coordinates)

and(self, other) ==
    DependencySet(and_tuples(self.basisfunctions, other.basisfunctions),
                  self.runtime /\ other.runtime,
                  self.coordinates /\ other.coordinates)

\* On the heap ds of DependencySet objects: d = DependencySet(...); return d
construct(ds, d) == Append(ds, d)

differsByIdentity(ds, o, d) == o # d

\* o[1] != d
differs(ds, o, d) == ne(ds[o], ds[d])

----------------------------------------------------------------------------
(* Expression nodes (ufl.expr.Expr and its subclasses) *)

Node(type, ops, num) == [type |-> type, ops |-> ops, num |-> num]

\* num of a Variable is label()._count; num of a BasisFunction or Function
\* is the identity that the renumbering of the form data maps to a slot.
label(h, v) == h[v].num

operands(h, x) == h[x].ops

TerminalTypes == {"FloatValue", "MultiIndex", "BasisFunction", "Function", "FacetNormal"}

skiptypesAllTerminals == TerminalTypes

\* _skiptypes = (MultiIndex, Zero, FloatValue, IntValue)
skiptypes == {"MultiIndex", "Zero", "FloatValue", "IntValue"}

None == 0

\* formdata.basisfunction_renumbering, formdata.coefficient_renumbering
basisfunction_renumbering == [c \in 0..(Rank - 1) |-> c]

coefficient_renumbering == [c \in {0} |-> c]

----------------------------------------------------------------------------
(* Input expressions: the terminals of the form followed by internal nodes,
   each over nodes built before it; the root is the last node and every
   other node is an operand of some node. *)

TerminalPool ==
    << Node("FloatValue", << >>, 0), Node("MultiIndex", << >>, 0),
       Node("BasisFunction", << >>, 0), Node("BasisFunction", << >>, 1),
       Node("Function", << >>, 0), Node("FacetNormal", << >>, 0) >>

\* labels of the variables the caller wrote
UserLabels == {1, 2}

RECURSIVE Pick(_, _)
Pick(S, i) ==
    IF i > Len(TerminalPool) THEN << >>
    ELSE (IF i \in S THEN << TerminalPool[i] >> ELSE << >>) \o Pick(S, i + 1)

Unused(h) == {i \in 1..(Len(h) - 1) : \A j \in DOMAIN h : i \notin Range(h[j].ops)}

\* a node with two operands uses up at most one more unused node than it adds
Completable(h) == Cardinality(Unused(h)) <= MaxNodes - Len(h)

Extensions(h) ==
    LET exprs == {i \in DOMAIN h : h[i].type # "MultiIndex"}
        multi == {i \in DOMAIN h : h[i].type = "MultiIndex"}
        used  == {h[i].num : i \in {j \in DOMAIN h : h[j].type = "Variable"}}
        \* labels are names: a label is first used after the labels below it
        next  == {l \in UserLabels : \A m \in UserLabels : m < l => m \in used}
    IN  {Node("Variable", << i >>, l) : i \in exprs, l \in next}
        \cup {Node("Sum", << i, j >>, 0) : i \in exprs, j \in exprs}
        \cup {Node("SpatialDerivative", << i, j >>, 0) : i \in exprs, j \in multi}

Grown(h) ==
    {hh \in {Append(h, nd) : nd \in Extensions(h)} :
        Len(hh) <= MaxNodes /\ Completable(hh)}

RECURSIVE Grow(_, _)
Grow(H, n) ==
    IF n = 0 \/ H = {} THEN H
    ELSE H \cup Grow(UNION {Grown(h) : h \in H}, n - 1)

TerminalHeaps ==
    {h \in {Pick(S, 1) : S \in (SUBSET (1..Len(TerminalPool))) \ {{}}} :
        Len(h) <= MaxNodes /\ Completable(h)}

\* (1.23 + w) * u * v
MassIntegrand ==
    << Node("FloatValue", << >>, 0), Node("Function", << >>, 0),
       Node("Sum", << 1, 2 >>, 0), Node("BasisFunction", << >>, 1),
       Node("Sum", << 3, 4 >>, 0), Node("BasisFunction", << >>, 0),
       Node("Sum", << 5, 6 >>, 0) >>

\* the expression below x as a value: equal values are equal expressions (__eq__)
RECURSIVE structure(_, _)
structure(h, x) ==
    << h[x].type, h[x].num, [i \in DOMAIN h[x].ops |-> structure(h, h[x].ops[i])] >>

\* a label names one variable: wrappers with the same label wrap equal expressions
Labelled(h) ==
    \A x, y \in {i \in DOMAIN h : h[i].type = "Variable"} :
        x < y /\ label(h, x) = label(h, y)
            => structure(h, h[x].ops[1]) = structure(h, h[y].ops[1])

Inputs ==
    {h \in Grow(TerminalHeaps, MaxNodes) :
        Unused(h) = {} /\ h[Len(h)].type # "MultiIndex" /\ Labelled(h)}
    \cup {MassIntegrand}

----------------------------------------------------------------------------
(* ufl.algorithms.analysis.extract_variables *)

RECURSIVE post_traversal(_, _)
post_traversal(h, x) ==
    LET RECURSIVE below(_)
        below(i) == IF i > Len(h[x].ops) THEN << >>
                    ELSE post_traversal(h, h[x].ops[i]) \o below(i + 1)
    IN  below(1) \o << x >>

RECURSIVE firsts(_)
firsts(s) ==
    IF s = << >> THEN << >>
    ELSE LET r == firsts(SubSeq(s, 1, Len(s) - 1))
         IN  IF s[Len(s)] \in Range(r) THEN r ELSE Append(r, s[Len(s)])

\* every Variable node below x, once, children before parents
postorder_variables(h, x) ==
    firsts(SelectSeq(post_traversal(h, x), LAMBDA n : h[n].type = "Variable"))

\* the orders a caller-defined traversal can list them in
extract_variables(h, x) ==
    LET S == Range(postorder_variables(h, x))
    IN  {s \in [1..Cardinality(S) -> S] : \A i, j \in DOMAIN s : s[i] = s[j] => i = j}

----------------------------------------------------------------------------
(* class VariableInfo, class CodeStructure, the dict behind stacks *)

VariableInfo(variable, deps) == [variable |-> variable, deps |-> deps]

\* dict lookup: the first entry whose stored hash is the key's hash and
\* whose key is the key itself or compares equal to it
lookdict(d, ds, key) ==
    LET m == {i \in DOMAIN d :
                /\ d[i].hash = hash(ds[key])
                /\ (d[i].key = key \/ eq(ds[d[i].key], ds[key]))}
    IN  IF m = {} THEN 0 ELSE CHOOSE i \in m : \A j \in m : i <= j

stacks_insert_first(d, ds, key, item) ==
    LET i == lookdict(d, ds, key)
    IN  IF i = 0
        THEN Append(d, [key |-> key, hash |-> hash(ds[key]), value |-> << item >>])
        ELSE [d EXCEPT ![i].value = << item >> \o @]

\* stacks[deps].append(vinfo) on a defaultdict(list)
stacks_append(d, ds, key, item) ==
    LET i == lookdict(d, ds, key)
    IN  IF i = 0
        THEN Append(d, [key |-> key, hash |-> hash(ds[key]), value |-> << item >>])
        ELSE [d EXCEPT ![i].value = Append(@, item)]

getNothing(info, count) == None

\* variableinfo.get(count, None)
get(info, count) == IF count \in DOMAIN info THEN info[count] ELSE None

putNothing(info, count, v) == info

\* variableinfo[count] = vinfo
put(info, count, v) ==
    [c \in DOMAIN info \cup {count} |-> IF c = count THEN v ELSE info[c]]

----------------------------------------------------------------------------
(* class DependencySplitter *)

make_empty_deps == DependencySet([i \in 1..Len(basisfunction_deps) |-> FALSE], FALSE, FALSE)

Frame(x) ==
    [node |-> x, res |-> << >>, phase |-> "visit", d |-> 0, ops |-> << >>,
     k |-> 0, n0 |-> 0]

top == frames[Len(frames)]

caller == UNCHANGED << basisfunction_deps, function_deps, run, first, out >>

loop == UNCHANGED << expression, variables, vi, vinfo, result >>

registry == UNCHANGED << vinfos, variableinfo, stacks >>

\* visit(o) returns r to the handler call that awaits it, or to handle
return(r) ==
    IF Len(frames) = 1
    THEN /\ frames' = << >>
         /\ pc' = "register"
         /\ reg' = [e |-> r[1], deps |-> r[2],
                    count |-> label(heap, variables[vi]), from |-> "handle"]
    ELSE /\ frames' = [SubSeq(frames, 1, Len(frames) - 1)
                          EXCEPT ![Len(frames) - 1].res = Append(@, r)]
         /\ pc' = "visit"
         /\ reg' = reg

\* ufl_assert fails: the exception leaves split_by_dependencies
raise ==
    /\ pc' = "failed"
    /\ UNCHANGED << frames, reg >>

visiting(types) ==
    /\ pc = "visit"
    /\ top.phase = "visit"
    /\ heap[top.node].type \in types

terminal ==
    /\ visiting({"FloatValue", "MultiIndex"})
    /\ dsets' = construct(dsets, make_empty_deps)
    /\ return(<< top.node, Len(dsets) + 1 >>)
    /\ UNCHANGED << heap, labelcount, log >>
    /\ caller /\ loop /\ registry

basis_function ==
    /\ visiting({"BasisFunction"})
    /\ LET x == heap[top.node]
       IN  IF x.num \in DOMAIN basisfunction_renumbering
           THEN return(<< top.node,
                          basisfunction_deps[basisfunction_renumbering[x.num] + 1] >>)
           ELSE raise
    /\ UNCHANGED << heap, dsets, labelcount, log >>
    /\ caller /\ loop /\ registry

function ==
    /\ visiting({"Function"})
    /\ LET x == heap[top.node]
       IN  IF x.num \in DOMAIN coefficient_renumbering
           THEN return(<< top.node,
                          function_deps[coefficient_renumbering[x.num] + 1] >>)
           ELSE raise
    /\ UNCHANGED << heap, dsets, labelcount, log >>
    /\ caller /\ loop /\ registry

facet_normal ==
    /\ visiting({"FacetNormal"})
    /\ dsets' = construct(dsets, [make_empty_deps EXCEPT !.runtime = TRUE])
    /\ return(<< top.node, Len(dsets) + 1 >>)
    /\ UNCHANGED << heap, labelcount, log >>
    /\ caller /\ loop /\ registry

variableUnchecked ==
    /\ visiting({"Variable"})
    /\ LET found == get(variableinfo, label(heap, top.node))
       IN  IF found # None
           THEN return(<< vinfos[found].variable, vinfos[found].deps >>)
           ELSE return(<< top.node, basisfunction_deps[1] >>)
    /\ UNCHANGED << heap, dsets, labelcount, log >>
    /\ caller /\ loop /\ registry

variable ==
    /\ visiting({"Variable"})
    /\ LET found == get(variableinfo, label(heap, top.node))
       IN  IF found # None
           THEN return(<< vinfos[found].variable, vinfos[found].deps >>)
           ELSE raise
    /\ UNCHANGED << heap, dsets, labelcount, log >>
    /\ caller /\ loop /\ registry

\* Transformer.visit: the operands are visited before the handler is called
visit ==
    /\ visiting({"Sum", "SpatialDerivative"})
    /\ Len(top.res) < Len(operands(heap, top.node))
    /\ frames' = Append(frames, Frame(operands(heap, top.node)[Len(top.res) + 1]))
    /\ UNCHANGED << heap, dsets, labelcount, log, reg, pc >>
    /\ caller /\ loop /\ registry

Observation(handler, f, differ, ops, e, d, nv) ==
    [handler |-> handler, node |-> f.node, res |-> f.res, differ |-> differ,
     ops |-> ops, e |-> e, d |-> d, registered |-> nv - f.n0, run |-> run]

spatial_derivative ==
    /\ visiting({"SpatialDerivative"})
    /\ Len(top.res) = Len(operands(heap, top.node))
    /\ LET x    == top.node
           f    == top.res[1]
           ii   == top.res[2]
           deps == Len(dsets) + 1
           d    == Len(dsets) + 2
           ds1  == construct(dsets, [make_empty_deps EXCEPT !.runtime = TRUE])
           e    == IF f[1] = operands(heap, x)[1] THEN x ELSE Len(heap) + 1
       IN  /\ dsets' = construct(ds1, or(ds1[f[2]], ds1[deps]))
           /\ heap' = IF e = x THEN heap
                      ELSE Append(heap, Node(heap[x].type, << f[1], ii[1] >>, 0))
           /\ log' = Append(log, Observation("spatial_derivative",
                                             [top EXCEPT !.n0 = Len(vinfos)], FALSE,
                                             << f, ii >>, e, d, Len(vinfos)))
           /\ return(<< e, d >>)
    /\ UNCHANGED labelcount
    /\ caller /\ loop /\ registry

combineLast(ds, ops, i, d) == << ds, ops[Len(ops)][2] >>

RECURSIVE combineInPlace(_, _, _, _)
combineInPlace(ds, ops, i, d) ==
    IF i > Len(ops) THEN << ds, d >>
    ELSE combineInPlace([ds EXCEPT ![d] = or(ds[d], ds[ops[i][2]])], ops, i + 1, d)

\* d = ops[0][1]; for o in ops[1:]: d |= o[1]
\* each |= binds d to a new object: the class defines no in-place operator
RECURSIVE combine(_, _, _, _)
combine(ds, ops, i, d) ==
    IF i > Len(ops) THEN << ds, d >>
    ELSE combine(construct(ds, or(ds[d], ds[ops[i][2]])), ops, i + 1, Len(ds) + 1)

expr_combine ==
    /\ visiting({"Sum"})
    /\ Len(top.res) = Len(operands(heap, top.node))
    /\ LET ops    == top.res
           c      == combine(dsets, ops, 2, ops[1][2])
           d      == c[2]
           differ == \E i \in DOMAIN ops : differs(c[1], ops[i][2], d)
       IN  /\ dsets' = c[1]
           /\ frames' = [frames EXCEPT ![Len(frames)] =
                  [@ EXCEPT !.d = d, !.n0 = Len(vinfos),
                            !.phase = IF differ THEN "promote" ELSE "finish",
                            !.ops = IF differ THEN << >> ELSE ops,
                            !.k = 1]]
    /\ UNCHANGED << heap, labelcount, log, reg, pc >>
    /\ caller /\ loop /\ registry

\* for o in oldops: keep o, or call register_expression(o[0], o[1])
expr_promote ==
    /\ pc = "visit"
    /\ top.phase = "promote"
    /\ top.k <= Len(top.res)
    /\ LET o == top.res[top.k]
       IN  IF heap[o[1]].type \in skiptypes
           THEN /\ frames' = [frames EXCEPT ![Len(frames)] =
                       [@ EXCEPT !.ops = Append(@, o), !.k = @ + 1]]
                /\ UNCHANGED << reg, pc >>
           ELSE /\ reg' = [e |-> o[1], deps |-> o[2], count |-> None, from |-> "expr"]
                /\ pc' = "register"
                /\ UNCHANGED frames
    /\ UNCHANGED << heap, dsets, labelcount, log >>
    /\ caller /\ loop /\ registry

expr_finish ==
    /\ pc = "visit"
    /\ top.phase \in {"promote", "finish"}
    /\ top.phase = "promote" => top.k > Len(top.res)
    /\ LET x    == top.node
           ops  == [i \in DOMAIN top.ops |-> top.ops[i][1]]
           same == \A p \in Range(zip(ops, operands(heap, x))) : p[1] = p[2]
           e    == IF same THEN x ELSE Len(heap) + 1
       IN  /\ heap' = IF same THEN heap ELSE Append(heap, Node(heap[x].type, ops, 0))
           /\ log' = Append(log, Observation("expr", top, top.phase = "promote",
                                             top.ops, e, top.d, Len(vinfos)))
           /\ return(<< e, top.d >>)
    /\ UNCHANGED << dsets, labelcount >>
    /\ caller /\ loop /\ registry

register_expression ==
    /\ pc = "register"
    /\ LET e     == reg.e
           deps  == reg.deps
           heap1 == IF reg.count = None
                    THEN IF heap[e].type = "Variable" THEN heap
                         ELSE Append(heap, Node("Variable", << e >>, labelcount))
                    ELSE Append(heap, Node("Variable", << e >>, reg.count))
           v     == IF heap1 = heap THEN e ELSE Len(heap1)
           count == label(heap1, v)
           found == get(variableinfo, count)
           new   == Len(vinfos) + 1
           r     == IF found = None THEN new ELSE found
           vs1   == IF found = None THEN Append(vinfos, VariableInfo(v, deps)) ELSE vinfos
       IN  /\ heap' = heap1
           /\ labelcount' = IF labelcount > count THEN labelcount ELSE count + 1
           /\ vinfos' = vs1
           /\ variableinfo' = IF found = None THEN put(variableinfo, count, new)
                              ELSE variableinfo
           /\ stacks' = IF found = None THEN stacks_append(stacks, dsets, deps, new)
                        ELSE stacks
           /\ IF reg.from = "handle"
              THEN /\ vinfo' = r
                   /\ vi' = vi + 1
                   /\ pc' = "loop"
                   /\ UNCHANGED frames
              ELSE IF reg.from = "caller"
              THEN /\ vinfo' = r
                   /\ pc' = "called"
                   /\ UNCHANGED << frames, vi >>
              ELSE /\ frames' = [frames EXCEPT ![Len(frames)] =
                          [@ EXCEPT !.ops = Append(@, << vs1[r].variable, vs1[r].deps >>),
                                    !.k = @ + 1]]
                   /\ pc' = "visit"
                   /\ UNCHANGED << vinfo, vi >>
    /\ UNCHANGED << dsets, log, reg, expression, variables, result >>
    /\ caller

handle ==
    /\ pc = "loop"
    /\ vi <= Len(variables)
    /\ LET v     == variables[vi]
           found == get(variableinfo, label(heap, v))
       IN  IF found = None
           THEN /\ frames' = << Frame(operands(heap, v)[1]) >>
                /\ pc' = "visit"
                /\ UNCHANGED << vinfo, vi >>
           ELSE /\ vinfo' = found
                /\ vi' = vi + 1
                /\ UNCHANGED << frames, pc >>
    /\ UNCHANGED << heap, dsets, labelcount, log, reg, expression, variables, result >>
    /\ caller /\ registry

----------------------------------------------------------------------------
(* split_by_dependencies *)

NoCall == [e |-> 0, deps |-> 0, count |-> None, from |-> "none"]

NoRun == [variableinfo |-> << >>, stacks |-> << >>, variables |-> << >>, vinfo |-> 0]

\* lines 361-374: the variables of the expression, the root wrapped in a
\* Variable if it is none, a new DependencySplitter with its CodeStructure
split ==
    /\ pc = "split"
    /\ \E found \in IF run = 1 THEN extract_variables(heap, expression)
                     ELSE {postorder_variables(heap, expression)} :
         LET wrap == heap[expression].type # "Variable"
             root == IF wrap THEN Len(heap) + 1 ELSE expression
         IN  IF ~wrap /\ found[Len(found)] # expression
             THEN /\ pc' = "failed"
                  /\ UNCHANGED << heap, labelcount, expression, variables, vi >>
             ELSE /\ heap' = IF wrap
                             THEN Append(heap, Node("Variable", << expression >>, labelcount))
                             ELSE heap
                  /\ labelcount' = IF wrap THEN labelcount + 1 ELSE labelcount
                  /\ expression' = root
                  /\ variables' = IF wrap THEN Append(found, root) ELSE found
                  /\ vi' = 1
                  /\ pc' = "loop"
    /\ variableinfo' = << >>
    /\ stacks' = << >>
    /\ UNCHANGED << dsets, vinfos, frames, reg, vinfo, result, log >>
    /\ caller

\* line 386
return_ ==
    /\ pc = "loop"
    /\ vi > Len(variables)
    /\ result' = << vinfo >>
    /\ pc' = "done"
    /\ UNCHANGED << heap, dsets, labelcount, log, frames, reg, expression, variables,
                    vi, vinfo >>
    /\ caller /\ registry

\* the caller splits the variable it got back, with the same form data and tables
resplit ==
    /\ pc = "done"
    /\ run = 1
    /\ run' = 2
    /\ first' = [variableinfo |-> variableinfo, stacks |-> stacks,
                 variables |-> variables, vinfo |-> result[1]]
    /\ expression' = vinfos[result[1]].variable
    /\ variables' = << >>
    /\ vi' = 0
    /\ vinfo' = 0
    /\ result' = << >>
    /\ pc' = "split"
    /\ UNCHANGED << heap, dsets, vinfos, labelcount, variableinfo, stacks, frames,
                    reg, log, basisfunction_deps, function_deps, out >>

\* the caller registers one of its variables itself, with one of its sets
register ==
    /\ pc = "done"
    /\ run = 2
    /\ \E v \in Range(variables) :
       \E d \in Range(basisfunction_deps) \cup Range(function_deps) :
       \E count \in {None, label(heap, v)} :
         reg' = [e |-> v, deps |-> d, count |-> count, from |-> "caller"]
    /\ pc' = "register"
    /\ UNCHANGED << heap, dsets, labelcount, log, frames, expression, variables,
                    vi, vinfo, result >>
    /\ caller /\ registry

unit_tuple(i, n) == [j \in 1..n |-> j = i]

\* one DependencySet per basis function, one per coefficient
Tables ==
    [i \in 1..(Rank + 1) |->
        IF i <= Rank THEN DependencySet(unit_tuple(i, Rank), FALSE, FALSE)
        ELSE DependencySet([j \in 1..Rank |-> FALSE], TRUE, TRUE)]

FirstLabel == (CHOOSE l \in UserLabels : \A m \in UserLabels : m <= l) + 1

Init ==
    /\ heap \in Inputs
    /\ expression = Len(heap)
    /\ dsets = Tables
    /\ basisfunction_deps = [i \in 1..Rank |-> i]
    /\ function_deps = << Rank + 1 >>
    /\ vinfos = << >>
    /\ labelcount = FirstLabel
    /\ variables = << >>
    /\ vi = 0
    /\ variableinfo = << >>
    /\ stacks = << >>
    /\ frames = << >>
    /\ reg = NoCall
    /\ vinfo = 0
    /\ result = << >>
    /\ pc = "split"
    /\ run = 1
    /\ first = NoRun
    /\ log = << >>
    /\ out = << >>

Next ==
    \/ split
    \/ handle
    \/ visit
    \/ terminal
    \/ basis_function
    \/ function
    \/ facet_normal
    \/ variable
    \/ spatial_derivative
    \/ expr_combine
    \/ expr_promote
    \/ expr_finish
    \/ register_expression
    \/ return_
    \/ resplit
    \/ register

Spec == Init /\ [][Next]_vars

----------------------------------------------------------------------------
(* The DependencySet operations on their own: three operands are drawn and
   one operation is applied to the first two, in either order or to one of
   them twice. *)

AllDependencySets ==
    {DependencySet(b, r, c) : b \in [1..Rank -> BOOLEAN], r \in BOOLEAN, c \in BOOLEAN}

idle ==
    UNCHANGED << heap, vinfos, labelcount, expression, basisfunction_deps,
                 function_deps, variables, vi, variableinfo, stacks, frames, reg,
                 vinfo, result, run, first, log >>

InitDS ==
    /\ \E a, b, c \in AllDependencySets : dsets = << a, b, c >>
    /\ pc = "operands"
    /\ out = << >>
    /\ heap = << >>
    /\ expression = 0
    /\ basisfunction_deps = [i \in 1..Rank |-> 1]
    /\ function_deps = << >>
    /\ vinfos = << >>
    /\ labelcount = FirstLabel
    /\ variables = << >>
    /\ vi = 0
    /\ variableinfo = << >>
    /\ stacks = << >>
    /\ frames = << >>
    /\ reg = NoCall
    /\ vinfo = 0
    /\ result = << >>
    /\ run = 1
    /\ first = NoRun
    /\ log = << >>

\* d = a | b
union ==
    /\ pc = "operands"
    /\ \E a, b \in {1, 2} :
         /\ dsets' = construct(dsets, or(dsets[a], dsets[b]))
         /\ out' = << "or", a, b, Len(dsets) + 1 >>
    /\ pc' = "applied"
    /\ idle

\* d = a & b
intersection ==
    /\ pc = "operands"
    /\ \E a, b \in {1, 2} :
         /\ dsets' = construct(dsets, and(dsets[a], dsets[b]))
         /\ out' = << "and", a, b, Len(dsets) + 1 >>
    /\ pc' = "applied"
    /\ idle

\* a.covers(b)
covering ==
    /\ pc = "operands"
    /\ \E a, b \in {1, 2} : out' = << "covers", a, b, covers(dsets[a], dsets[b]) >>
    /\ pc' = "applied"
    /\ UNCHANGED dsets
    /\ idle

\* a == b
equality ==
    /\ pc = "operands"
    /\ \E a, b \in {1, 2} : out' = << "eq", a, b, eq(dsets[a], dsets[b]) >>
    /\ pc' = "applied"
    /\ UNCHANGED dsets
    /\ idle

\* hash(a), hash(b)
hashing ==
    /\ pc = "operands"
    /\ \E a, b \in {1, 2} :
         out' = << "hash", a, b, << hash(dsets[a]), hash(dsets[b]) >> >>
    /\ pc' = "applied"
    /\ UNCHANGED dsets
    /\ idle

NextDS ==
    \/ union
    \/ intersection
    \/ covering
    \/ equality
    \/ hashing

SpecDS == InitDS /\ [][NextDS]_vars

----------------------------------------------------------------------------
(* Properties of a splitting run *)

Flags(d) == iter(dsets[d])

\* the VariableInfo objects in the stacks, and those in one stack
Stacked == UNION {Range(stacks[s].value) : s \in DOMAIN stacks}

Running == pc \in {"loop", "visit", "register", "done"}

\* C1: every VariableInfo in a stack has the flags (runtime, coordinates, each
\* basis function) of the stack's key, at every point of a run and in the
\* returned CodeStructure, and no VariableInfo is in more than one stack.
GroupingCorrect ==
    /\ \A s \in DOMAIN stacks : \A v \in Range(stacks[s].value) :
         Flags(vinfos[v].deps) = Flags(stacks[s].key)
    /\ \A s, t \in DOMAIN stacks :
         s # t => Range(stacks[s].value) \cap Range(stacks[t].value) = {}

\* a returned CodeStructure with three stacks, one of them holding a
\* VariableInfo whose DependencySet is another object than the key
GroupingWitness ==
    /\ pc = "done"
    /\ Len(stacks) >= 3
    /\ \E s \in DOMAIN stacks : \E v \in Range(stacks[s].value) :
         vinfos[v].deps # stacks[s].key

\* the observations of the expr handler in the present run
Handled(handler) == {i \in DOMAIN log : log[i].handler = handler /\ log[i].run = run}

\* the VariableInfo objects in the stacks that stand for operand i of the
\* node of observation o: their variable is the operand the node is rebuilt
\* over, and it is the visited operand or wraps it
Promoted(o, i) ==
    {v \in Stacked :
        /\ vinfos[v].variable = o.ops[i][1]
        /\ heap[vinfos[v].variable].type = "Variable"
        /\ \/ o.ops[i][1] = o.res[i][1]
           \/ operands(heap, vinfos[v].variable) = << o.res[i][1] >>}

IsUnion(d, a, b) ==
    /\ Len(Flags(d)) = Len(Flags(a))
    /\ Len(Flags(d)) = Len(Flags(b))
    /\ \A p \in DOMAIN Flags(d) : Flags(d)[p] <=> (Flags(a)[p] \/ Flags(b)[p])

\* index lists and literal constants
Trivial(x) == heap[x].type \in {"MultiIndex", "Zero", "FloatValue", "IntValue"}

TwoDiffering(o) ==
    /\ Len(o.res) = 2
    /\ Flags(o.res[1][2]) # Flags(o.res[2][2])

\* C2 as stated: when the two operands of a generic node have different
\* dependency sets, both operands are in a stack as distinct VariableInfo
\* entries once the node is processed, and the node's set is their union.
PromotionOfBoth ==
    Running =>
        \A i \in Handled("expr") :
            TwoDiffering(log[i]) =>
                /\ Promoted(log[i], 1) # {}
                /\ Promoted(log[i], 2) # {}
                /\ Promoted(log[i], 1) \cap Promoted(log[i], 2) = {}
                /\ IsUnion(log[i].d, log[i].res[1][2], log[i].res[2][2])

\* C2 amended: the same of every operand that is not a MultiIndex, Zero,
\* FloatValue or IntValue; those stay in place and get no VariableInfo.
PromotionCorrect ==
    Running =>
        \A i \in Handled("expr") :
            TwoDiffering(log[i]) =>
                /\ \A k \in 1..2 :
                     IF Trivial(log[i].res[k][1])
                     THEN /\ log[i].ops[k] = log[i].res[k]
                          /\ Promoted(log[i], k) = {}
                     ELSE Cardinality(Promoted(log[i], k)) = 1
                /\ Promoted(log[i], 1) \cap Promoted(log[i], 2) = {}
                /\ IsUnion(log[i].d, log[i].res[1][2], log[i].res[2][2])

\* a node with differing operands, neither of a skipped type, was processed
PromotionWitness ==
    /\ Running
    /\ \E i \in Handled("expr") :
         /\ TwoDiffering(log[i])
         /\ \A k \in 1..2 : ~Trivial(log[i].res[k][1])
         /\ Promoted(log[i], 1) # {}
         /\ Promoted(log[i], 2) # {}

\* the labels of the VariableInfo objects of a stack, in the stack's order
Labels(value) == [i \in DOMAIN value |-> label(heap, vinfos[value[i]].variable)]

\* a CodeStructure as labels: each label's flags, each key's labels
KeyOf(info) == [l \in DOMAIN info |-> Flags(vinfos[info[l]].deps)]

Ordered(st) == {<< Flags(st[s].key), Labels(st[s].value) >> : s \in DOMAIN st}

Unordered(st) == {<< Flags(st[s].key), Range(Labels(st[s].value)) >> : s \in DOMAIN st}

\* the caller listed the variables children first
PostOrdered(vs) == vs = postorder_variables(heap, vs[Len(vs)])

Resplit == pc = "done" /\ run = 2

\* C3 as stated: splitting the root variable of a run again gives the same
\* labels, the same key for each label and the same order in every stack.
Idempotent ==
    Resplit /\ PostOrdered(first.variables) /\ PostOrdered(variables) =>
        /\ KeyOf(variableinfo) = KeyOf(first.variableinfo)
        /\ Ordered(stacks) = Ordered(first.stacks)

\* C3 amended: the second run completes with the same labels, the same key
\* for each label and the same labels in every stack, in an order that can
\* differ from the first run's.
IdempotentUpToOrder ==
    /\ pc = "failed" => run = 1
    /\ Resplit =>
        /\ DOMAIN variableinfo = DOMAIN first.variableinfo
        /\ KeyOf(variableinfo) = KeyOf(first.variableinfo)
        /\ Unordered(stacks) = Unordered(first.stacks)

\* a second run that has put two labels of one stack in the other order
IdempotentWitness ==
    /\ Resplit
    /\ PostOrdered(first.variables)
    /\ Ordered(stacks) # Ordered(first.stacks)
    /\ Unordered(stacks) = Unordered(first.stacks)

\* every rewritten operand is the very object that is the node's operand
Untouched(o) ==
    \A i \in DOMAIN o.res : i \in DOMAIN operands(heap, o.node)
                                => o.res[i][1] = operands(heap, o.node)[i]

\* C4: a generic node whose operands all have the combined dependency set
\* gets no variable registered while it is handled, and is returned as the
\* very node it was when its rewritten operands are its own operands; a
\* spatial derivative whose rewritten first operand is its own is returned
\* as the very node it was.
IdentityPreserved ==
    /\ \A i \in Handled("expr") :
         (\A k \in DOMAIN log[i].res : Flags(log[i].res[k][2]) = Flags(log[i].d)) =>
             /\ log[i].registered = 0
             /\ log[i].ops = log[i].res
             /\ Untouched(log[i]) => log[i].e = log[i].node
    /\ \A i \in Handled("spatial_derivative") :
         log[i].res[1][1] = operands(heap, log[i].node)[1] => log[i].e = log[i].node

\* a generic node with two operands of one dependency set and a spatial
\* derivative have both been returned as they were
IdentityWitness ==
    /\ \E i \in Handled("expr") :
         /\ Len(log[i].res) = 2
         /\ log[i].res[1][1] # log[i].res[2][1]
         /\ Flags(log[i].res[1][2]) = Flags(log[i].res[2][2])
         /\ log[i].e = log[i].node
    /\ \E i \in Handled("spatial_derivative") : log[i].e = log[i].node

\* the variable is handled whose label has a VariableInfo already
Skipping ==
    /\ pc = "loop"
    /\ vi <= Len(variables)
    /\ label(heap, variables[vi]) \in DOMAIN variableinfo

\* C5: when split_by_dependencies returns, every variable of the list, the
\* root among them, has a VariableInfo under its own label, and the
\* VariableInfo returned is the one under the root's label; a variable whose
\* label has a VariableInfo when its turn comes is passed over: nothing is
\* visited and the CodeStructure stays as it is.
AllHandled ==
    /\ [](pc = "done" =>
            /\ \A i \in DOMAIN variables :
                 /\ label(heap, variables[i]) \in DOMAIN variableinfo
                 /\ label(heap, vinfos[variableinfo[label(heap, variables[i])]].variable)
                        = label(heap, variables[i])
            /\ expression = variables[Len(variables)]
            /\ result = << variableinfo[label(heap, expression)] >>)
    /\ [][Skipping =>
            /\ pc' = "loop"
            /\ vi' = vi + 1
            /\ vinfo' = variableinfo[label(heap, variables[vi])]
            /\ UNCHANGED << frames, heap, dsets, vinfos, variableinfo, stacks, log >>]_vars

\* a run has returned whose list held two variables of one label, and a
\* third variable
AllHandledWitness ==
    /\ pc = "done"
    /\ run = 1
    /\ Len(variables) >= 3
    /\ \E i, j \in DOMAIN variables :
         i < j /\ label(heap, variables[i]) = label(heap, variables[j])

\* the visit is at a Variable whose label has no VariableInfo
ForwardReference ==
    /\ pc = "visit"
    /\ top.phase = "visit"
    /\ heap[top.node].type = "Variable"
    /\ label(heap, top.node) \notin DOMAIN variableinfo

\* C6: the visit of a Variable whose label has no VariableInfo fails the run
\* there and then: nothing is registered by that step or after it, not the
\* enclosing variable either, and split_by_dependencies returns nothing.
OrderingViolationFatal ==
    /\ [][ForwardReference =>
            /\ pc' = "failed"
            /\ UNCHANGED << vinfos, variableinfo, stacks, result >>]_vars
    /\ [](pc = "failed" =>
            /\ result = << >>
            /\ ~ENABLED Next
            /\ frames # << >> => label(heap, variables[vi]) \notin DOMAIN variableinfo)

\* a run has failed at a Variable inside the expression of another
OrderingViolationWitness ==
    /\ pc = "failed"
    /\ frames # << >>
    /\ heap[top.node].type = "Variable"
    /\ label(heap, top.node) \notin DOMAIN variableinfo
    /\ result = << >>

\* the label register_expression is about to look up
Count ==
    IF reg.count # None THEN reg.count
    ELSE IF heap[reg.e].type = "Variable" THEN label(heap, reg.e)
    ELSE labelcount

\* what the pending register_expression call has returned to its caller
Returns(v) ==
    IF reg.from \in {"handle", "caller"} THEN vinfo' = v
    ELSE LET f == frames'[Len(frames')]
         IN  f.ops[Len(f.ops)] = << vinfos'[v].variable, vinfos'[v].deps >>

KeyValue(st) == [s \in DOMAIN st |-> << st[s].key, st[s].value >>]

\* C7: register_expression with a label that has no VariableInfo makes one
\* VariableInfo, puts it in variableinfo under the label and at the end of
\* the stack whose key has the flags of the given set, and changes nothing
\* else of the CodeStructure; with a label that has one it changes nothing
\* and returns that one, whatever set was given.
RegisterProtocol ==
    [][pc = "register" =>
        IF Count \notin DOMAIN variableinfo
        THEN LET v == Len(vinfos) + 1
                 same == {s \in DOMAIN stacks : Flags(stacks[s].key) = Flags(reg.deps)}
             IN  /\ Len(vinfos') = v
                 /\ SubSeq(vinfos', 1, Len(vinfos)) = vinfos
                 /\ vinfos'[v].deps = reg.deps
                 /\ heap'[vinfos'[v].variable].type = "Variable"
                 /\ label(heap', vinfos'[v].variable) = Count
                 /\ \/ vinfos'[v].variable = reg.e
                    \/ operands(heap', vinfos'[v].variable) = << reg.e >>
                 /\ DOMAIN variableinfo' = DOMAIN variableinfo \cup {Count}
                 /\ variableinfo'[Count] = v
                 /\ \A l \in DOMAIN variableinfo : variableinfo'[l] = variableinfo[l]
                 /\ Cardinality(same) <= 1
                 /\ IF same = {}
                    THEN KeyValue(stacks') = Append(KeyValue(stacks), << reg.deps, << v >> >>)
                    ELSE \A s \in same :
                           KeyValue(stacks') =
                               [KeyValue(stacks) EXCEPT ![s][2] = Append(@, v)]
                 /\ dsets' = dsets
                 /\ Returns(v)
        ELSE /\ UNCHANGED << vinfos, variableinfo, stacks, dsets >>
             /\ Returns(variableinfo[Count])]_vars

\* register_expression has returned the VariableInfo of a registered label
\* to a caller that gave another set than the stored one, after a run that
\* put two VariableInfo objects in one stack
RegisterWitness ==
    /\ pc = "called"
    /\ vinfo \in DOMAIN vinfos
    /\ label(heap, vinfos[vinfo].variable) = label(heap, reg.e)
    /\ Flags(vinfos[vinfo].deps) # Flags(reg.deps)
    /\ \E s \in DOMAIN stacks : Len(stacks[s].value) >= 2

----------------------------------------------------------------------------
(* Properties of the DependencySet operations *)

Applied(op) == pc = "applied" /\ out[1] = op

SameFlags(a, b) ==
    /\ a.runtime = b.runtime
    /\ a.coordinates = b.coordinates
    /\ a.basisfunctions = b.basisfunctions

\* C8: a == b is true exactly when every flag of a equals the flag of b; so
\* == is symmetric and sets that compare equal have equal hashes.
EqualityByFlags ==
    /\ Applied("eq") => (out[4] <=> SameFlags(dsets[out[2]], dsets[out[3]]))
    /\ \A a, b \in DOMAIN dsets :
         /\ eq(dsets[a], dsets[b]) <=> eq(dsets[b], dsets[a])
         /\ eq(dsets[a], dsets[b]) => hash(dsets[a]) = hash(dsets[b])

\* C9: | and & are commutative and associative flag by flag, and an
\* application makes a new set and leaves the sets there were as they are.
UnionIntersectionLaws ==
    /\ [](pc = "operands" => \A a, b, c \in Range(dsets) :
            /\ iter(or(a, b)) = iter(or(b, a))
            /\ iter(and(a, b)) = iter(and(b, a))
            /\ iter(or(or(a, b), c)) = iter(or(a, or(b, c)))
            /\ iter(and(and(a, b), c)) = iter(and(a, and(b, c))))
    /\ [](Applied("or") =>
            \A p \in DOMAIN iter(dsets[out[4]]) :
                iter(dsets[out[4]])[p] <=>
                    (iter(dsets[out[2]])[p] \/ iter(dsets[out[3]])[p]))
    /\ [](Applied("and") =>
            \A p \in DOMAIN iter(dsets[out[4]]) :
                iter(dsets[out[4]])[p] <=>
                    (iter(dsets[out[2]])[p] /\ iter(dsets[out[3]])[p]))
    /\ [][pc = "operands" =>
            /\ SubSeq(dsets', 1, Len(dsets)) = dsets
            /\ out'[1] \in {"or", "and"} => Len(dsets') = Len(dsets) + 1]_vars

\* a | b has been made of two sets neither of which covers the other
UnionWitness ==
    /\ Applied("or")
    /\ Len(dsets) = 4
    /\ dsets[4] # dsets[out[2]]
    /\ dsets[4] # dsets[out[3]]
    /\ Cardinality(Range(dsets)) = 4

\* C10: a.covers(b) is true exactly when every flag set in b is set in a; so
\* a covers a, a covers the all-false set, and a | b covers a and b.
CoversLaws ==
    /\ Applied("covers") =>
         (out[4] <=> \A p \in DOMAIN iter(dsets[out[3]]) :
                         iter(dsets[out[3]])[p] => iter(dsets[out[2]])[p])
    /\ pc = "operands" => \A a, b \in Range(dsets) :
         /\ covers(a, a)
         /\ (\A p \in DOMAIN iter(b) : ~iter(b)[p]) => covers(a, b)
         /\ covers(or(a, b), a)
         /\ covers(or(a, b), b)

\* a.covers(b) has answered True for a set b with a flag set and a set a
\* with more flags set
CoversWitness ==
    /\ Applied("covers")
    /\ out[4]
    /\ dsets[out[2]] # dsets[out[3]]
    /\ \E p \in DOMAIN iter(dsets[out[3]]) : iter(dsets[out[3]])[p]

----------------------------------------------------------------------------
(* End-to-end scenarios *)

\* the first run was given the input h, whose root is no Variable
Given(h) ==
    /\ Len(heap) > Len(h)
    /\ SubSeq(heap, 1, Len(h)) = h
    /\ heap[Len(h) + 1] = Node("Variable", << Len(h) >>, FirstLabel)
    /\ expression = Len(h) + 1
    /\ run = 1

\* 1.23 * v
ProductOfLiteral ==
    << Node("FloatValue", << >>, 0), Node("BasisFunction", << >>, 0),
       Node("Sum", << 1, 2 >>, 0) >>

\* the VariableInfo objects of variable_info whose variable wraps node x
Wrapping(x) ==
    {a \in Range(variableinfo) : operands(heap, vinfos[a].variable) = << x >>}

\* C11 as stated: splitting 1.23 * v returns a root VariableInfo with v's
\* flags and a CodeStructure whose variable_info has the product's entry only.
ScenarioBOneVariable ==
    Given(ProductOfLiteral) /\ pc = "done" =>
        /\ Flags(vinfos[result[1]].deps) = Flags(basisfunction_deps[1])
        /\ Cardinality(DOMAIN variableinfo) = 1
        /\ Wrapping(2) = {}

\* C11: splitting 1.23 * v returns a root VariableInfo with v's flags;
\* variable_info has two entries, one for v (promoted with its own flags
\* because the literal's set differs from the union) and one for the product
\* rebuilt over the literal and v's variable; the literal has none.
ScenarioBCorrect ==
    Given(ProductOfLiteral) /\ pc = "done" =>
        /\ Flags(vinfos[result[1]].deps) = Flags(basisfunction_deps[1])
        /\ Cardinality(DOMAIN variableinfo) = 2
        /\ Wrapping(1) = {}
        /\ \E a \in Wrapping(2) :
             /\ Flags(vinfos[a].deps) = Flags(basisfunction_deps[1])
             /\ a # result[1]
             /\ LET product == operands(heap, vinfos[result[1]].variable)[1]
                IN  /\ heap[product].type = "Sum"
                    /\ operands(heap, product) = << 1, vinfos[a].variable >>
        /\ Len(stacks) = 1
        /\ Len(stacks[1].value) = 2

\* the run on 1.23 * v has returned
ScenarioBWitness ==
    /\ Given(ProductOfLiteral)
    /\ pc = "done"
    /\ result # << >>
    /\ \E o \in Handled("expr") : log[o].differ

\* the flags of the union of the sets a, b and c
Union3(a, b, c) == [p \in DOMAIN Flags(a) |-> Flags(a)[p] \/ Flags(b)[p] \/ Flags(c)[p]]

\* stack s holds a VariableInfo whose variable wraps node x
Holds(s, x) == Range(stacks[s].value) \cap Wrapping(x) # {}

\* C12: splitting (1.23 + w) * u * v gives at least three distinct non-empty
\* stacks, one keyed by w's set and holding w's variable, one keyed by a set
\* covering u's and holding u's variable, one keyed by a set covering v's and
\* holding v's variable; the root VariableInfo has the union of the three sets.
ScenarioCCorrect ==
    Given(MassIntegrand) /\ pc = "done" =>
        LET w == function_deps[1]
            u == basisfunction_deps[2]
            v == basisfunction_deps[1]
        IN  /\ Len(stacks) >= 3
            /\ \A s \in DOMAIN stacks : stacks[s].value # << >>
            /\ \A s, t \in DOMAIN stacks :
                 s # t => Flags(stacks[s].key) # Flags(stacks[t].key)
            /\ \E sw, su, sv \in DOMAIN stacks :
                 /\ Cardinality({sw, su, sv}) = 3
                 /\ Flags(stacks[sw].key) = Flags(w)
                 /\ \A p \in DOMAIN Flags(u) : Flags(u)[p] => Flags(stacks[su].key)[p]
                 /\ \A p \in DOMAIN Flags(v) : Flags(v)[p] => Flags(stacks[sv].key)[p]
                 /\ Holds(sw, 2)
                 /\ Holds(su, 4)
                 /\ Holds(sv, 6)
            /\ Flags(vinfos[result[1]].deps) = Union3(w, u, v)

\* the run on (1.23 + w) * u * v has returned, after three promoting nodes
ScenarioCWitness ==
    /\ Given(MassIntegrand)
    /\ pc = "done"
    /\ result # << >>
    /\ Cardinality({o \in Handled("expr") : log[o].differ}) = 3

----------------------------------------------------------------------------
(* Frame properties and invariants of the registry *)

\* the DependencySet objects of the caller's tables
Shared == Range(basisfunction_deps) \cup Range(function_deps)

\* C13: the DependencySet objects of basisfunction_deps and function_deps
\* have the flags the caller gave them throughout both runs, and every step
\* of the splitter leaves every existing DependencySet object as it is: what
\* it sets or accumulates is an object made in that step.
TablesReadOnly ==
    /\ [](/\ basisfunction_deps = [i \in 1..Rank |-> i]
          /\ function_deps = << Rank + 1 >>
          /\ \A t \in Shared : dsets[t] = Tables[t])
    /\ [][\A i \in DOMAIN dsets : i \in DOMAIN dsets' /\ dsets'[i] = dsets[i]]_vars

\* the second run has returned, and a generic node began its accumulation
\* d = ops[0][1] on an object of the tables and ended with other flags
TablesWitness ==
    /\ pc = "done"
    /\ run = 2
    /\ \E i \in DOMAIN log :
         /\ log[i].handler = "expr"
         /\ log[i].res[1][2] \in Shared
         /\ Flags(log[i].d) # Flags(log[i].res[1][2])

\* the positions of the stacks: << stack, index in the stack >>
Places == UNION {{<< s, i >> : i \in DOMAIN stacks[s].value} : s \in DOMAIN stacks}

LabelAt(p) == label(heap, vinfos[stacks[p[1]].value[p[2]]].variable)

\* C14: at every point of a run the VariableInfo objects of variable_info are
\* those in the stacks, every label is at exactly one position of one stack,
\* every key of variable_info is the label of the variable it maps to, and
\* the lengths of the stacks add up to the size of variable_info.
RegistryConsistent ==
    LET places == Places
        at     == [p \in places |-> LabelAt(p)]
    IN  /\ Stacked = Range(variableinfo)
        /\ Range(at) = DOMAIN variableinfo
        /\ \A p, q \in places : at[p] = at[q] => p = q
        /\ \A p \in places : variableinfo[at[p]] = stacks[p[1]].value[p[2]]
        /\ \A c \in DOMAIN variableinfo : label(heap, vinfos[variableinfo[c]].variable) = c
        /\ Cardinality(places) = Cardinality(DOMAIN variableinfo)

\* a returned CodeStructure with three variables in two stacks or more, one
\* stack holding two
RegistryWitness ==
    /\ pc = "done"
    /\ Cardinality(DOMAIN variableinfo) >= 3
    /\ Len(stacks) >= 2
    /\ \E s \in DOMAIN stacks : Len(stacks[s].value) >= 2

\* the labels of the Variable nodes inside the expression that the variable
\* of VariableInfo a wraps, on the heaps h and vs
RECURSIVE Below(_, _)
Below(h, x) == {x} \cup UNION {Below(h, y) : y \in Range(operands(h, x))}

Refs(h, vs, a) ==
    {label(h, n) : n \in {m \in Below(h, operands(h, vs[a].variable)[1]) :
                            h[m].type = "Variable"}}

InfoAt(p) == stacks[p[1]].value[p[2]]

Before(q, p) == q[1] < p[1] \/ (q[1] = p[1] /\ q[2] < p[2])

\* C15 as stated: a registered variable refers to registered variables only,
\* each registered before it, and each before it in the stacks laid end to
\* end (stacks in the order their keys were first used, each in its order).
DefinedBeforeUseInStacks ==
    /\ \A a \in Range(variableinfo) : \A l \in Refs(heap, vinfos, a) :
         l \in DOMAIN variableinfo /\ variableinfo[l] < a
    /\ \A p, q \in Places :
         LabelAt(q) \in Refs(heap, vinfos, InfoAt(p)) => Before(q, p)

\* C15: when a VariableInfo is registered, every Variable inside its stored
\* expression has its label in variable_info already; so at every point a
\* registered variable refers to variables registered before it, and inside
\* one stack a variable comes before every variable that refers to it.
DefinedBeforeUse ==
    /\ [][\A c \in (DOMAIN variableinfo') \ (DOMAIN variableinfo) :
            Refs(heap', vinfos', variableinfo'[c]) \subseteq DOMAIN variableinfo]_vars
    /\ [](\A a \in Range(variableinfo) : \A l \in Refs(heap, vinfos, a) :
            l \in DOMAIN variableinfo /\ variableinfo[l] < a)
    /\ [](\A p, q \in Places :
            p[1] = q[1] /\ LabelAt(q) \in Refs(heap, vinfos, InfoAt(p)) => q[2] < p[2])

\* a returned CodeStructure in which a variable refers to a variable of its
\* own stack and to a variable of another stack
DefinedBeforeUseWitness ==
    /\ pc = "done"
    /\ \E p, q, r \in Places :
         /\ {LabelAt(q), LabelAt(r)} \subseteq Refs(heap, vinfos, InfoAt(p))
         /\ q[1] = p[1]
         /\ r[1] # p[1]

\* every flag set for the DependencySet object b is set for the object a
Superset(a, b) ==
    /\ dsets[b].runtime => dsets[a].runtime
    /\ dsets[b].coordinates => dsets[a].coordinates
    /\ \A i \in DOMAIN dsets[b].basisfunctions :
         dsets[b].basisfunctions[i] => dsets[a].basisfunctions[i]

\* C16: at every point the set of a registered variable has every flag of the
\* set of each registered variable inside its stored expression; the set
\* computed for a generic node has every flag of each operand's set, and the
\* set computed for a spatial derivative has those of its operand and runtime.
DependenciesMonotone ==
    /\ \A a \in Range(variableinfo) : \A l \in Refs(heap, vinfos, a) :
         l \in DOMAIN variableinfo =>
             Superset(vinfos[a].deps, vinfos[variableinfo[l]].deps)
    /\ \A i \in DOMAIN log :
         /\ \A k \in DOMAIN log[i].res : Superset(log[i].d, log[i].res[k][2])
         /\ log[i].handler = "spatial_derivative" => dsets[log[i].d].runtime

\* a returned CodeStructure in which a variable refers to a variable with
\* fewer flags, after a spatial derivative of an operand without runtime
DependenciesWitness ==
    /\ pc = "done"
    /\ \E a \in Range(variableinfo) : \E l \in Refs(heap, vinfos, a) :
         /\ l \in DOMAIN variableinfo
         /\ Flags(vinfos[a].deps) # Flags(vinfos[variableinfo[l]].deps)
    /\ \E o \in Handled("spatial_derivative") : ~dsets[log[o].res[1][2]].runtime

====
